---- MODULE Spec2Model ----
(***************************************************************************)
(* vite-plugin-vue-transition-root-validator: the delivery protocol that   *)
(* carries a Vue <Transition> warning from the browser client (client.ts)  *)
(* to the Vite dev server plugin (index.ts) and back (the ack).            *)
(*                                                                         *)
(* Strings are sequences of characters (small integers); "" is <<>>.       *)
(***************************************************************************)
EXTENDS Integers, Sequences, FiniteSets, TLC

\* ------------------------------------------------------------- bounds
\* Messages in flight on each direction of the websocket.
MaxInFlight == 1
\* Size of the pool of timer ids the runtime's setTimeout hands out.
MaxTimers == 2
\* Length of the key prefix, message.slice(0, 800), scaled down to the
\* lengths of the messages of this model.
KeyChars == 2

\* Length of the debounce key, text.slice(0, 400), scaled down likewise.
DebounceChars == 2
\* Date.now() when the page loads, the clock's step and the steps it takes.
StartMs == 1000
TickMs == 100
MaxTicks == 6

\* ---------------------------------------------------- program constants
FloorDelayMs == 200
CapDelayMs == 2000
DebounceMs == 500

\* ------------------------------------------------------------- values
\* JavaScript's undefined, for a string-valued field.
undefined == <<0>>
\* JavaScript's null, for the timer handle.
null == 0

Min(a, b) == IF a < b THEN a ELSE b

\* String.prototype.slice(0, n)
slice(s, n) == SubSeq(s, 1, Min(n, Len(s)))

\* !x for a string-valued x that may be undefined
Falsy(s) == s = undefined \/ s = <<>>

\* The texts formatTransitionRootMessage can hand to send(): two that agree on
\* their first characters (and so on their key) and a short one.
ClientMessages == {<<1, 1, 1, 1>>, <<1, 1, 1, 2>>, <<2>>}

Lang == {"en", "zh"}
NoLang == "undefined"
\* options.lang as the application passes it to setupVueRootValidator
SetupLangs == {"zh"}

\* type Payload / ClientReportPayload
Payload(k, m, l) == [key |-> k, message |-> m, lang |-> l]
NoPayload == Payload(undefined, undefined, NoLang)

\* The payload the warn handler builds: { key: message.slice(0, 800), message, lang }
ClientPayload(m, l) == Payload(slice(m, KeyChars), m, l)

\* ------------------------------------------------------- Vue warnings
\* VUE_TRANSITION_WARN, the marker text
VUE_TRANSITION_WARN == <<7>>

\* String.prototype.includes
Includes(s, sub) ==
  \E i \in 1..(Len(s) - Len(sub) + 1) : SubSeq(s, i, i + Len(sub) - 1) = sub

\* The msg argument: the marker, the marker inside a longer text, and a
\* warning of another kind.
WarnMsgs == {<<7>>, <<7, 9>>, <<8>>}

\* The trace argument. 1 and 2 stand for "at <Name" with two component names,
\* 5 for key="/route"; the empty trace matches neither pattern.
ComponentChars == {1, 2}
RouteChars == {5}
Traces == {<<1>>, <<2, 5>>, <<>>}

\* The instance argument: null, or a component instance with
\* $options.__file and $el.baseURI.
NullInstance == [isNull |-> TRUE, file |-> undefined, url |-> undefined]
Instances == {NullInstance, [isNull |-> FALSE, file |-> <<3>>, url |-> <<4>>]}

\* app.config.warnHandler before the installation: unset, or the app's own
NoHandler == "undefined"
WarnHandlers == {NoHandler, "appWarnHandler"}

\* the warn handler's arguments when the last step was no call of it
NoWarning == [msg |-> undefined, instance |-> NullInstance, trace |-> undefined]

\* history: no warning was accepted yet
NoAccepted == [at |-> 0, key |-> undefined]

\* the first character of text that is in chars, as a string, or undefined
FirstOf(text, chars) ==
  IF \E i \in 1..Len(text) : text[i] \in chars
  THEN LET i == CHOOSE i \in 1..Len(text) :
                  /\ text[i] \in chars
                  /\ \A j \in 1..(i - 1) : text[j] \notin chars
       IN <<text[i]>>
  ELSE undefined

\* extractComponentName(text): text.match(/at <([^\s>]+)/)?.[1]
extractComponentName(text) == FirstOf(text, ComponentChars)

\* extractRouteKey(text): text.match(/key="([^"]+)"/)?.[1]
extractRouteKey(text) == FirstOf(text, RouteChars)

\* guessViewFileFromInstance(instance)
guessViewFileFromInstance(instance) ==
  IF instance.isNull THEN undefined ELSE instance.file

\* getViewUrlFromInstance(instance)
getViewUrlFromInstance(instance) ==
  IF instance.isNull THEN undefined ELSE instance.url

\* `if (x) lines.push(...x...)`: the text a context field adds
Line(x) == IF Falsy(x) THEN <<>> ELSE x

\* formatTransitionRootMessage(lang, ctx): the title in the language, then
\* the file, the URL and the context line, where present
formatTransitionRootMessage(l, ctx) ==
  (IF l = "zh" THEN <<1, 1, 1>> ELSE <<2>>)
    \o Line(ctx.file) \o Line(ctx.url)
    \o Line(ctx.component) \o Line(ctx.routeKey)

\* a resendLog that forwards the warnings with the marker only
resendLog_matchedOnly(h, msg, instance, trace) ==
  IF h # NoHandler /\ Includes(msg, VUE_TRANSITION_WARN)
  THEN <<[fn |-> "originalWarnHandler",
          arg |-> [msg |-> msg, instance |-> instance, trace |-> trace]]>>
  ELSE <<>>

\* resendLog(msg, instance, trace): the calls it makes, with
\* originalWarnHandler = h
resendLog(h, msg, instance, trace) ==
  IF h # NoHandler
  THEN <<[fn |-> "originalWarnHandler",
          arg |-> [msg |-> msg, instance |-> instance, trace |-> trace]]>>
  ELSE <<>>

\* a one-shot check that never stops the handler
OneShotFired_never(d, e) == FALSE

\* disableAfterFirstError && errorSent
OneShotFired(d, e) == d /\ e

\* a debounce that asks for both the elapsed time and a new key
PassesDebounce_both(t, at, key, lastKey) ==
  t - at > DebounceMs /\ key # lastKey

\* now - lastSentAt > 500 || key !== lastSentKey
PassesDebounce(t, at, key, lastKey) ==
  t - at > DebounceMs \/ key # lastKey

\* (msg + trace).slice(0, 400)
DebounceKey(msg, trace) == slice(msg \o trace, DebounceChars)

\* Connections (client objects) the dev server can be handed. The browser
\* client of this model is ClientConn; "c4" is a client object without send.
Conns == {"c1", "c2", "c3", "c4"}
ClientConn == "c1"
HasSend(c) == c # "c4"

\* Reports arriving on the other connections: ClientReportPayload, with its
\* optional key and lang and a message that may be missing.
ForeignPayloads ==
  { Payload(k, m, l) : k \in {undefined, <<1, 1>>, <<2>>},
                       m \in {undefined, <<1, 1, 1, 1>>, <<2>>},
                       l \in {NoLang, "zh"} }

VARIABLES
  hot,              \* import.meta.hot: [defined, send, on]
  installed,        \* globalThis.__VITE_PLUGIN_VUE_ROOT_VALIDATOR_INSTALLED__
  lang,             \* options.lang ?? 'en' of the installed handler
  listenersBound,   \* client.ts listenersBound
  bound,            \* event names with a handler registered through hot.on
  pendingPayloads,  \* the Map, as its entries in insertion order
  retryTimer,       \* the timer handle, or null
  retryDelayMs,     \* the backoff delay
  timers,           \* the runtime's armed timers: [id, delay]
  wsUp,             \* whether hot.send currently goes through
  reports,          \* vue-warn events in flight, client to server
  acks,             \* ack events in flight, server to client
  server,           \* "listening" (handler registered) or "idle"
  lastByClient,     \* the WeakMap: connection -> last key, or undefined
  lastOp,           \* the operation of the last step: [name, conn, data]
  sent,             \* what the server handler sent in the last step, in order
  attempts,         \* the trySendNow calls of the last step: [payload, ok]
  latest,           \* history: key -> message of the latest send() with it
  shown,            \* history: keys whose current event was shown on ClientConn
  displaced,        \* history: shown keys after which another key was shown
  lastSeen,         \* history: connection -> key of its last well-formed report
  outage,           \* history: the step of an outage-and-recovery run reached
  originalWarnHandler,     \* client.ts originalWarnHandler: null or a handler
  disableAfterFirstError,  \* options.disableAfterFirstError ?? false
  lastSentAt,       \* the installed handler's lastSentAt
  lastSentKey,      \* the installed handler's lastSentKey
  errorSent,        \* the installed handler's errorSent
  now,              \* Date.now()
  warning,          \* the arguments of the warn handler call of the last step
  warnLog,          \* the calls that warn handler call made, in order
  accepted          \* history: [at, key] of the last warning that led to a send

vars == <<hot, installed, lang, listenersBound, bound, pendingPayloads,
          retryTimer, retryDelayMs, timers, wsUp, reports, acks, server,
          lastByClient, lastOp, sent, attempts, latest, shown, displaced,
          lastSeen, outage, originalWarnHandler, disableAfterFirstError,
          lastSentAt, lastSentKey, errorSent, now, warning, warnLog,
          accepted>>

\* the state of the installed warn handler, the clock and what it was seen to do
warnVars == <<originalWarnHandler, disableAfterFirstError, lastSentAt,
              lastSentKey, errorSent, now, warning, warnLog, accepted>>

clientVars == <<installed, lang, listenersBound, bound, pendingPayloads,
                retryTimer, retryDelayMs, timers>>
serverVars == <<server, lastByClient>>
historyVars == <<latest, shown, displaced, lastSeen>>

Keys == {slice(m, KeyChars) : m \in ClientMessages}

Op(n, c, d) == [name |-> n, conn |-> c, data |-> d]

\* ------------------------------------------------------------ the Map
\* Map.prototype.has
MapHas(entries, k) == \E i \in 1..Len(entries) : entries[i].key = k

\* a set that adds an entry without looking for the key
MapSet_append(entries, p) == Append(entries, p)

\* Map.prototype.set: replaces the value of an existing key in place
MapSet(entries, p) ==
  IF MapHas(entries, p.key)
  THEN [i \in 1..Len(entries) |->
          IF entries[i].key = p.key THEN p ELSE entries[i]]
  ELSE Append(entries, p)

\* a delete that empties the map
MapDelete_clear(entries, k) == <<>>

\* a delete that removes the oldest entry, whatever the key
MapDelete_first(entries, k) == IF entries = <<>> THEN entries ELSE Tail(entries)

\* Map.prototype.delete
MapDelete(entries, k) == SelectSeq(entries, LAMBDA e : e.key # k)

MapKeys(entries) == {entries[i].key : i \in 1..Len(entries)}

\* the message of the entry stored under k, or undefined
MapGet(entries, k) ==
  IF MapHas(entries, k)
  THEN (CHOOSE e \in {entries[i] : i \in 1..Len(entries)} : e.key = k).message
  ELSE undefined

\* ---------------------------------------------------------- the client
\* trySendNow's return value, with the websocket up or down: false when
\* hot.send is missing or throws
TrySendNow(up) == hot.defined /\ hot.send /\ up

\* what a trySendNow call leaves in flight: a full channel loses the message
Transmit(ch, p, up) ==
  IF TrySendNow(up) /\ Len(ch) < MaxInFlight THEN Append(ch, p) ELSE ch

Attempt(p, up) == [payload |-> p, ok |-> TrySendNow(up)]

\* flushPendingPayloads: what it leaves in flight
RECURSIVE FlushPendingPayloads(_, _, _)
FlushPendingPayloads(ch, entries, up) ==
  IF entries = <<>> THEN ch
  ELSE FlushPendingPayloads(Transmit(ch, Head(entries), up), Tail(entries), up)

\* flushPendingPayloads: the trySendNow calls it makes
FlushAttempts(entries, up) ==
  [i \in 1..Len(entries) |-> Attempt(entries[i], up)]

\* setTimeout: the id of the timer it arms
FreeIds(ts) == (1..MaxTimers) \ {t.id : t \in ts}
NewTimerId(ts) == CHOOSE i \in FreeIds(ts) : \A j \in FreeIds(ts) : i <= j

\* scheduleRetry without its early return
ScheduleRetry_unguarded(handle, ts, delay) ==
  <<NewTimerId(ts), ts \cup {[id |-> NewTimerId(ts), delay |-> delay]}>>

\* scheduleRetry that arms the timer only while the websocket is down
ScheduleRetry_onFailure(handle, ts, delay) ==
  IF handle # null \/ TrySendNow(wsUp) THEN <<handle, ts>>
  ELSE <<NewTimerId(ts), ts \cup {[id |-> NewTimerId(ts), delay |-> delay]}>>

\* scheduleRetry that always arms the timer with the initial delay
ScheduleRetry_floor(handle, ts, delay) ==
  IF handle # null THEN <<handle, ts>>
  ELSE <<NewTimerId(ts),
         ts \cup {[id |-> NewTimerId(ts), delay |-> FloorDelayMs]}>>

\* scheduleRetry: <<retryTimer, timers>> after it
ScheduleRetry(handle, ts, delay) ==
  IF handle # null THEN <<handle, ts>>
  ELSE <<NewTimerId(ts), ts \cup {[id |-> NewTimerId(ts), delay |-> delay]}>>

\* a clearTimeout that clears nothing
ClearTimeout_noop(ts, handle) == ts

\* clearTimeout
ClearTimeout(ts, handle) == {t \in ts : t.id # handle}

\* a retry that keeps the delay as it is
NextDelay_same(delay) == delay

\* doubling without the cap
NextDelay_uncapped(delay) == delay * 2

\* the delay after a retry that leaves entries pending
NextDelay(delay) == Min(delay * 2, CapDelayMs)

\* bindHmrListenersOnce: <<listenersBound, bound>> after it
BindHmrListenersOnce ==
  IF listenersBound THEN <<listenersBound, bound>>
  ELSE IF hot.defined /\ hot.on THEN <<TRUE, {"vite:ws:connect", "ack"}>>
  ELSE <<TRUE, bound>>

\* configResolved(config) then configureServer(server): whether the handler
\* is registered. The plugin is apply: 'serve', so Vite resolves it with the
\* command 'serve' only.
configureServer(command) == IF command = "serve" THEN "listening" ELSE "idle"

Init ==
  /\ hot \in {[defined |-> d, send |-> s, on |-> o] :
                d \in BOOLEAN, s \in BOOLEAN, o \in BOOLEAN}
  /\ hot.defined \/ (~hot.send /\ ~hot.on)
  /\ installed = FALSE
  /\ lang = "en"
  /\ listenersBound = FALSE
  /\ bound = {}
  /\ pendingPayloads = <<>>
  /\ retryTimer = null
  /\ retryDelayMs = FloorDelayMs
  /\ timers = {}
  /\ wsUp = FALSE
  /\ reports = <<>>
  /\ acks = <<>>
  /\ server = configureServer("serve")
  /\ lastByClient = [c \in Conns |-> undefined]
  /\ lastOp = Op("init", ClientConn, NoPayload)
  /\ sent = <<>>
  /\ attempts = <<>>
  /\ latest = [k \in Keys |-> undefined]
  /\ shown = {}
  /\ displaced = {}
  /\ lastSeen = [c \in Conns |-> undefined]
  /\ outage = 0
  /\ originalWarnHandler = NoHandler
  /\ disableAfterFirstError = FALSE
  /\ lastSentAt = 0
  /\ lastSentKey = <<>>
  /\ errorSent = FALSE
  /\ now = StartMs
  /\ warning = NoWarning
  /\ warnLog = <<>>
  /\ accepted = NoAccepted

\* setupVueRootValidator(app, options), with options.lang = l,
\* options.disableAfterFirstError ?? false = d and app.config.warnHandler = h
Setup(l, d, h) ==
  /\ lastOp' = Op("setup", ClientConn, NoPayload)
  /\ sent' = <<>>
  /\ attempts' = <<>>
  /\ warning' = NoWarning
  /\ warnLog' = <<>>
  /\ IF installed
     THEN UNCHANGED <<installed, lang, listenersBound, bound,
                      originalWarnHandler, disableAfterFirstError,
                      lastSentAt, lastSentKey, errorSent>>
     ELSE /\ installed' = TRUE
          /\ lang' = l
          /\ disableAfterFirstError' = d
          /\ listenersBound' = BindHmrListenersOnce[1]
          /\ bound' = BindHmrListenersOnce[2]
          /\ originalWarnHandler' = h
          /\ lastSentAt' = 0
          /\ lastSentKey' = <<>>
          /\ errorSent' = FALSE
  /\ UNCHANGED <<hot, pendingPayloads, retryTimer, retryDelayMs, timers, wsUp,
                 reports, acks, serverVars, historyVars, outage, now,
                 accepted>>

\* send(payload), called by the installed warn handler
Send(m) ==
  LET p == ClientPayload(m, lang)
      armed == ScheduleRetry(retryTimer, timers, retryDelayMs)
  IN
  /\ installed
  /\ FreeIds(timers) # {}
  /\ lastOp' = Op("send", ClientConn, p)
  /\ sent' = <<>>
  /\ latest' = [latest EXCEPT ![p.key] = m]
  /\ shown' = shown \ {p.key}
  /\ displaced' = displaced \ {p.key}
  /\ outage' = IF /\ hot.defined /\ hot.send /\ "vite:ws:connect" \in bound
                  /\ pendingPayloads = <<>> /\ timers = {}
                  /\ retryDelayMs = FloorDelayMs /\ ~wsUp
               THEN 1 ELSE 0
  /\ IF ~(hot.defined /\ hot.send)
     THEN /\ attempts' = <<>>
          /\ UNCHANGED <<listenersBound, bound, pendingPayloads, retryTimer,
                         timers, reports>>
     ELSE /\ listenersBound' = BindHmrListenersOnce[1]
          /\ bound' = BindHmrListenersOnce[2]
          /\ pendingPayloads' = MapSet(pendingPayloads, p)
          /\ attempts' = <<Attempt(p, wsUp)>>
          /\ reports' = Transmit(reports, p, wsUp)
          /\ retryTimer' = armed[1]
          /\ timers' = armed[2]
  /\ UNCHANGED <<hot, installed, lang, retryDelayMs, wsUp, acks, serverVars,
                 lastSeen>>

\* the callback scheduleRetry hands to setTimeout, run when timer t fires
RetryFire(t) ==
  LET delay == IF Len(pendingPayloads) > 0 THEN NextDelay(retryDelayMs)
               ELSE retryDelayMs
      ts == timers \ {t}
      armed == IF Len(pendingPayloads) > 0
               THEN ScheduleRetry(null, ts, delay) ELSE <<null, ts>>
  IN
  /\ t \in timers
  /\ FreeIds(ts) # {}
  /\ lastOp' = Op("timer", ClientConn, NoPayload)
  /\ sent' = <<>>
  /\ attempts' = FlushAttempts(pendingPayloads, wsUp)
  /\ reports' = FlushPendingPayloads(reports, pendingPayloads, wsUp)
  /\ retryDelayMs' = delay
  /\ retryTimer' = armed[1]
  /\ timers' = armed[2]
  /\ outage' = IF outage = 1 /\ ~wsUp THEN 2 ELSE 0
  /\ UNCHANGED <<hot, installed, lang, listenersBound, bound, pendingPayloads,
                 wsUp, acks, serverVars, historyVars, warnVars>>

\* the websocket opens: vite:ws:connect is dispatched to its handler, if any
Connect ==
  /\ wsUp' = TRUE
  /\ lastOp' = Op(IF "vite:ws:connect" \in bound THEN "connect" ELSE "open",
                  ClientConn, NoPayload)
  /\ sent' = <<>>
  /\ IF "vite:ws:connect" \in bound
     THEN /\ retryDelayMs' = FloorDelayMs
          /\ retryTimer' = null
          /\ timers' = IF retryTimer # null
                       THEN ClearTimeout(timers, retryTimer) ELSE timers
          /\ attempts' = FlushAttempts(pendingPayloads, TRUE)
          /\ reports' = FlushPendingPayloads(reports, pendingPayloads, TRUE)
     ELSE /\ attempts' = <<>>
          /\ UNCHANGED <<retryDelayMs, retryTimer, timers, reports>>
  /\ outage' = IF outage = 2 /\ "vite:ws:connect" \in bound THEN 3 ELSE 0
  /\ UNCHANGED <<hot, installed, lang, listenersBound, bound, pendingPayloads,
                 acks, serverVars, historyVars, warnVars>>

\* the websocket closes: hot.send fails until the next connect
Disconnect ==
  /\ wsUp
  /\ wsUp' = FALSE
  /\ lastOp' = Op("network", ClientConn, NoPayload)
  /\ sent' = <<>>
  /\ attempts' = <<>>
  /\ UNCHANGED <<hot, clientVars, reports, acks, serverVars, historyVars,
                 outage, warnVars>>

\* an ack handler that deletes the entry and does nothing more
AckEvent_deleteOnly ==
  LET key == Head(acks).key
  IN
  /\ acks # <<>>
  /\ "ack" \in bound
  /\ acks' = Tail(acks)
  /\ lastOp' = Op("ack", ClientConn,
                  Payload(key, MapGet(pendingPayloads, key), NoLang))
  /\ sent' = <<>>
  /\ attempts' = <<>>
  /\ pendingPayloads' = IF Falsy(key) THEN pendingPayloads
                        ELSE MapDelete(pendingPayloads, key)
  /\ outage' = 0
  /\ UNCHANGED <<hot, installed, lang, listenersBound, bound, wsUp, reports,
                 retryDelayMs, retryTimer, timers, serverVars, historyVars,
                 warnVars>>

\* the handler of the ack event, run on the ack at the head of the channel;
\* lastOp records the key with the message of the entry the delete removed
AckEvent ==
  LET key == Head(acks).key
      left == MapDelete(pendingPayloads, key)
  IN
  /\ acks # <<>>
  /\ "ack" \in bound
  /\ acks' = Tail(acks)
  /\ lastOp' = Op("ack", ClientConn,
                  Payload(key, MapGet(pendingPayloads, key), NoLang))
  /\ sent' = <<>>
  /\ attempts' = <<>>
  /\ IF Falsy(key)
     THEN UNCHANGED <<pendingPayloads, retryDelayMs, retryTimer, timers>>
     ELSE /\ pendingPayloads' = left
          /\ IF Len(left) = 0
             THEN /\ retryDelayMs' = FloorDelayMs
                  /\ retryTimer' = null
                  /\ timers' = IF retryTimer # null
                               THEN ClearTimeout(timers, retryTimer)
                               ELSE timers
             ELSE UNCHANGED <<retryDelayMs, retryTimer, timers>>
  /\ outage' = IF ~MapHas(pendingPayloads, key) THEN outage
               ELSE IF outage = 3 THEN 4 ELSE 0
  /\ UNCHANGED <<hot, installed, lang, listenersBound, bound, wsUp, reports,
                 serverVars, historyVars, warnVars>>

\* the i-th report in flight is lost: by the network, or for want of a handler
LoseReport(i) ==
  /\ i \in 1..Len(reports)
  /\ reports' = [j \in 1..(Len(reports) - 1) |->
                   IF j < i THEN reports[j] ELSE reports[j + 1]]
  /\ lastOp' = Op("network", ClientConn, NoPayload)
  /\ sent' = <<>>
  /\ attempts' = <<>>
  /\ UNCHANGED <<hot, clientVars, wsUp, acks, serverVars, historyVars,
                 outage, warnVars>>

\* the i-th ack in flight is lost: by the network, or for want of a handler
LoseAck(i) ==
  /\ i \in 1..Len(acks)
  /\ acks' = [j \in 1..(Len(acks) - 1) |->
                IF j < i THEN acks[j] ELSE acks[j + 1]]
  /\ lastOp' = Op("network", ClientConn, NoPayload)
  /\ sent' = <<>>
  /\ attempts' = <<>>
  /\ UNCHANGED <<hot, clientVars, wsUp, reports, serverVars, historyVars,
                 outage, warnVars>>

\* the installed app.config.warnHandler, called with (msg, instance, trace)
Warn(msg, instance, trace) ==
  LET key == DebounceKey(msg, trace)
      passes == /\ ~OneShotFired(disableAfterFirstError, errorSent)
                /\ Includes(msg, VUE_TRANSITION_WARN)
                /\ PassesDebounce(now, lastSentAt, key, lastSentKey)
      message == formatTransitionRootMessage(lang,
                   [url |-> getViewUrlFromInstance(instance),
                    file |-> guessViewFileFromInstance(instance),
                    routeKey |-> extractRouteKey(trace),
                    component |-> extractComponentName(trace)])
      forwarded == resendLog(originalWarnHandler, msg, instance, trace)
  IN
  /\ installed
  /\ warning' = [msg |-> msg, instance |-> instance, trace |-> trace]
  /\ IF passes
     THEN /\ lastSentAt' = now
          /\ lastSentKey' = key
          /\ errorSent' = TRUE
          /\ accepted' = [at |-> now, key |-> key]
          /\ warnLog' = forwarded
                \o <<[fn |-> "send", arg |-> ClientPayload(message, lang)]>>
          /\ Send(message)
     ELSE /\ warnLog' = forwarded
          /\ lastOp' = Op("warn", ClientConn, NoPayload)
          /\ sent' = <<>>
          /\ attempts' = <<>>
          /\ UNCHANGED <<hot, clientVars, wsUp, reports, acks, serverVars,
                         historyVars, outage, lastSentAt, lastSentKey,
                         errorSent, accepted>>
  /\ UNCHANGED <<originalWarnHandler, disableAfterFirstError, now>>

\* time passes
Tick ==
  /\ now < StartMs + MaxTicks * TickMs
  /\ now' = now + TickMs
  /\ lastOp' = Op("tick", ClientConn, NoPayload)
  /\ sent' = <<>>
  /\ attempts' = <<>>
  /\ warning' = NoWarning
  /\ warnLog' = <<>>
  /\ UNCHANGED <<hot, clientVars, wsUp, reports, acks, serverVars,
                 historyVars, outage, originalWarnHandler,
                 disableAfterFirstError, lastSentAt, lastSentKey, errorSent,
                 accepted>>

\* ---------------------------------------------------------- the server
\* getMessageHeader(lang)
getMessageHeader(l) ==
  IF l = "zh" THEN "zh.messageHeader" ELSE "en.messageHeader"

\* what the server puts on the wire: to a connection, or to "all" (server.ws.send)
ErrorPayload(to, l, message) ==
  [to |-> to, event |-> "error", header |-> getMessageHeader(l),
   stack |-> message, key |-> undefined]
AckPayload(to, key) ==
  [to |-> to, event |-> "ack", header |-> "", stack |-> undefined, key |-> key]

\* sendErrorOverlay that always takes the server.ws.send branch
sendErrorOverlay_broadcast(message, l, client) ==
  <<ErrorPayload("all", l, message)>>

\* sendErrorOverlay({ server, message, lang, client })
sendErrorOverlay(message, l, client) ==
  IF HasSend(client) THEN <<ErrorPayload(client, l, message)>>
  ELSE <<ErrorPayload("all", l, message)>>

\* client?.send?.('...:ack', { key })
SendAck(client, key) ==
  IF HasSend(client) THEN <<AckPayload(client, key)>> ELSE <<>>

\* payload.key ?? payload.message.slice(0, 800)
ReportKey(payload) ==
  IF payload.key # undefined THEN payload.key
  ELSE slice(payload.message, KeyChars)

\* payload.lang ?? 'en'
EffectiveLang(payload) == IF payload.lang # NoLang THEN payload.lang ELSE "en"

\* a comparison that never finds a repeat
IsRepeat_never(prev, key) == FALSE

\* prev === key
IsRepeat(prev, key) == prev = key

\* one slot shared by all clients instead of one per client
WeakMapSet_shared(map, client, key) == [c \in DOMAIN map |-> key]

\* WeakMap.prototype.get / set
WeakMapGet(map, client) == map[client]
WeakMapSet(map, client, key) == [map EXCEPT ![client] = key]

\* a handler whose dedup branch returns without the ack
HandlerSends_silentRepeat(map, payload, client) ==
  IF Falsy(payload.message) THEN <<>>
  ELSE IF IsRepeat(WeakMapGet(map, client), ReportKey(payload)) THEN <<>>
  ELSE sendErrorOverlay(payload.message, EffectiveLang(payload), client)
       \o SendAck(client, ReportKey(payload))

\* the vue-warn handler: what it sends, in order
HandlerSends(map, payload, client) ==
  IF Falsy(payload.message) THEN <<>>
  ELSE IF IsRepeat(WeakMapGet(map, client), ReportKey(payload))
  THEN SendAck(client, ReportKey(payload))
  ELSE sendErrorOverlay(payload.message, EffectiveLang(payload), client)
       \o SendAck(client, ReportKey(payload))

\* a handler that records a client's first key only
HandlerMap_firstOnly(map, payload, client) ==
  IF Falsy(payload.message) THEN map
  ELSE IF WeakMapGet(map, client) # undefined THEN map
  ELSE WeakMapSet(map, client, ReportKey(payload))

\* a handler without the check for a missing message
HandlerMap_unguarded(map, payload, client) ==
  IF IsRepeat(WeakMapGet(map, client), ReportKey(payload)) THEN map
  ELSE WeakMapSet(map, client, ReportKey(payload))

\* the vue-warn handler: lastByClient after it
HandlerMap(map, payload, client) ==
  IF Falsy(payload.message) THEN map
  ELSE IF IsRepeat(WeakMapGet(map, client), ReportKey(payload)) THEN map
  ELSE WeakMapSet(map, client, ReportKey(payload))

\* the acks among the sends that travel to the browser client of the model
AcksTo(client, sends) ==
  [i \in 1..Len(SelectSeq(sends, LAMBDA x : x.event = "ack" /\ x.to = client))
     |-> [key |-> SelectSeq(sends,
                    LAMBDA x : x.event = "ack" /\ x.to = client)[i].key]]

Shows(sends) == \E i \in 1..Len(sends) : sends[i].event = "error"

\* server.ws dispatches a vue-warn event of `client` to the handler
HandleIncoming(payload, client) ==
  LET sends == HandlerSends(lastByClient, payload, client)
      key == ReportKey(payload)
  IN
  /\ server = "listening"
  /\ lastOp' = Op("report", client, payload)
  /\ sent' = sends
  /\ attempts' = <<>>
  /\ lastByClient' = HandlerMap(lastByClient, payload, client)
  /\ lastSeen' = IF Falsy(payload.message) THEN lastSeen
                 ELSE [lastSeen EXCEPT ![client] = key]
  /\ IF client = ClientConn /\ Shows(sends)
     THEN /\ shown' = shown \cup {key}
          /\ displaced' = (displaced \cup shown) \ {key}
     ELSE UNCHANGED <<shown, displaced>>
  /\ UNCHANGED <<hot, clientVars, wsUp, server, latest, outage, warnVars>>

\* the report at the head of the channel reaches the server
DeliverReport ==
  /\ reports # <<>>
  /\ reports' = Tail(reports)
  /\ HandleIncoming(Head(reports), ClientConn)
  /\ acks' = SubSeq(acks \o AcksTo(ClientConn, sent'), 1,
                    Min(MaxInFlight, Len(acks) + Len(AcksTo(ClientConn, sent'))))

\* a report of another connection reaches the server
ForeignReport(payload, client) ==
  /\ client # ClientConn
  /\ HandleIncoming(payload, client)
  /\ UNCHANGED <<reports, acks>>

\* the browser client, the websocket and the server's end of its connection;
\* send() is called with any message at any time, the decisions of the warn
\* handler that calls it being those of SpecWarn
Next ==
  \/ \E l \in SetupLangs : Setup(l, FALSE, NoHandler)
  \/ \E m \in ClientMessages : Send(m) /\ UNCHANGED warnVars
  \/ \E t \in timers : RetryFire(t)
  \/ Connect
  \/ Disconnect
  \/ AckEvent
  \/ \E i \in 1..MaxInFlight : LoseReport(i)
  \/ \E i \in 1..MaxInFlight : LoseAck(i)
  \/ DeliverReport

Spec == Init /\ [][Next]_vars

\* the server's handler under reports of the other connections
NextServer ==
  \E payload \in ForeignPayloads, client \in Conns \ {ClientConn} :
    ForeignReport(payload, client)

SpecServer == Init /\ [][NextServer]_vars

\* the installed warn handler under the application's warnings and the clock
NextWarn ==
  \/ \E l \in SetupLangs, d \in BOOLEAN, h \in WarnHandlers : Setup(l, d, h)
  \/ \E msg \in WarnMsgs, instance \in Instances, trace \in Traces :
       Warn(msg, instance, trace)
  \/ Tick

SpecWarn == Init /\ [][NextWarn]_vars

\* ------------------------------------------------------------- claims
\* the step just taken ran the vue-warn handler on a payload with a message
Handled == lastOp.name = "report" /\ ~Falsy(lastOp.data.message)

\* C2 as stated: a report whose key equals the key recorded for its
\* connection is not shown, leaves the slot as it is and is answered by
\* exactly one ack with that key, on every connection.
C2_SuppressionAsStated ==
  [][(Handled' /\ lastByClient[lastOp'.conn] = ReportKey(lastOp'.data))
     => /\ ~Shows(sent')
        /\ lastByClient'[lastOp'.conn] = lastByClient[lastOp'.conn]
        /\ sent' = <<AckPayload(lastOp'.conn, ReportKey(lastOp'.data))>>]_vars

\* C2 amended: a report whose key equals the key recorded for its connection
\* is not shown and leaves the slot as it is; it is answered by exactly one ack
\* with that key when the connection has send, and by nothing when it has
\* not. After any handled report the slot holds its key, so the second of two
\* consecutive reports with one key is such a repeat.
C2_Suppression ==
  /\ [](Handled => lastByClient[lastOp.conn] = ReportKey(lastOp.data))
  /\ [][(Handled' /\ lastByClient[lastOp'.conn] = ReportKey(lastOp'.data))
        => /\ ~Shows(sent')
           /\ lastByClient'[lastOp'.conn] = lastByClient[lastOp'.conn]
           /\ HasSend(lastOp'.conn) =>
                sent' = <<AckPayload(lastOp'.conn, ReportKey(lastOp'.data))>>
           /\ ~HasSend(lastOp'.conn) => sent' = <<>>]_vars

\* a repeat on a connection with send was answered by its ack alone
C2_Witness ==
  /\ Handled
  /\ HasSend(lastOp.conn)
  /\ lastByClient[lastOp.conn] = ReportKey(lastOp.data)
  /\ sent = <<AckPayload(lastOp.conn, ReportKey(lastOp.data))>>

\* C3 as stated: a report whose key differs from the key recorded for its
\* connection sets the slot to its key, pushes the overlay to the connection
\* once and then sends one ack with the key, on every connection.
C3_ForwardAsStated ==
  [][(Handled' /\ lastByClient[lastOp'.conn] # ReportKey(lastOp'.data))
     => /\ lastByClient'[lastOp'.conn] = ReportKey(lastOp'.data)
        /\ sent' = <<ErrorPayload(lastOp'.conn, EffectiveLang(lastOp'.data),
                                  lastOp'.data.message),
                     AckPayload(lastOp'.conn, ReportKey(lastOp'.data))>>]_vars

\* C3 amended: a report with a message whose key differs from the key
\* recorded for its connection sets the slot to its key and pushes exactly one
\* overlay; on a connection with send the overlay goes to it and is followed
\* by one ack with the key, in that order. Only the last key counts: a report
\* whose key differs from the key of the connection's previous handled report
\* is forwarded.
C3_Forward ==
  [][/\ (Handled' /\ lastByClient[lastOp'.conn] # ReportKey(lastOp'.data))
        => /\ lastByClient'[lastOp'.conn] = ReportKey(lastOp'.data)
           /\ Len(SelectSeq(sent', LAMBDA x : x.event = "error")) = 1
           /\ HasSend(lastOp'.conn) =>
                sent' = <<ErrorPayload(lastOp'.conn,
                                       EffectiveLang(lastOp'.data),
                                       lastOp'.data.message),
                          AckPayload(lastOp'.conn, ReportKey(lastOp'.data))>>
     /\ (Handled' /\ lastSeen[lastOp'.conn] # ReportKey(lastOp'.data))
        => Shows(sent')]_vars

\* a connection with send whose slot held another key had a report forwarded:
\* overlay, then ack
C3_Witness ==
  /\ Handled
  /\ HasSend(lastOp.conn)
  /\ Len(sent) = 2
  /\ sent[1].event = "error" /\ sent[2].event = "ack"
  /\ \E c \in Conns \ {lastOp.conn} :
       lastByClient[c] \notin {undefined, lastByClient[lastOp.conn]}

\* C4: a handler call on one connection leaves the slot of every other
\* connection as it is, and it is forwarded exactly when its key differs from
\* the key of the previous handled report of its own connection.
C4_Independence ==
  [][(lastOp'.name = "report")
     => /\ \A b \in Conns \ {lastOp'.conn} : lastByClient'[b] = lastByClient[b]
        /\ Handled' =>
             (Shows(sent') <=> lastSeen[lastOp'.conn] # ReportKey(lastOp'.data))
    ]_vars

\* a repeat was suppressed on one connection while another holds another key
C4_Witness ==
  /\ Handled
  /\ ~Shows(sent)
  /\ lastByClient[lastOp.conn] = ReportKey(lastOp.data)
  /\ \E b \in Conns \ {lastOp.conn} :
       lastByClient[b] \notin {undefined, lastByClient[lastOp.conn]}

\* C5 as stated: every overlay goes to the connection that reported the
\* event and never to all connections.
C5_TargetedAsStated ==
  \A i \in 1..Len(sent) :
    sent[i].event = "error" => sent[i].to = lastOp.conn

\* C5 amended: every overlay of a connection that has send goes to that
\* connection alone; the server-wide send is used exactly for a connection
\* object without send.
C5_Targeted ==
  \A i \in 1..Len(sent) :
    sent[i].event = "error" =>
      sent[i].to = (IF HasSend(lastOp.conn) THEN lastOp.conn ELSE "all")

\* an overlay went to the reporting connection
C5_Witness ==
  /\ Handled
  /\ HasSend(lastOp.conn)
  /\ \E i \in 1..Len(sent) :
       sent[i].event = "error" /\ sent[i].to = lastOp.conn

\* the step just taken showed the overlay on the browser client's connection
ShownOnClient ==
  Handled /\ lastOp.conn = ClientConn /\ Shows(sent)

\* C1 as stated: the overlay of a key is pushed to the client's connection
\* at most once per submitted event; no resend of an event already shown
\* shows it again.
C1_AtMostOnceAsStated ==
  [][ShownOnClient' => ReportKey(lastOp'.data) \notin shown]_vars

\* C1 amended: a resend of an event already shown shows it again only after
\* the server has shown a report with another key on that connection in
\* between; as long as no other key intervenes the overlay is pushed at most
\* once per submitted event.
C1_AtMostOnce ==
  [][(ShownOnClient' /\ ReportKey(lastOp'.data) \in shown)
     => ReportKey(lastOp'.data) \in displaced]_vars

\* the resend of an event already shown was suppressed
C1_Witness ==
  /\ Handled
  /\ lastOp.conn = ClientConn
  /\ ~Shows(sent)
  /\ lastOp.data.key \in shown \ displaced

\* send() left its payload pending under its key with a retry timer armed
Queued ==
  /\ \E i \in 1..Len(pendingPayloads) : pendingPayloads[i] = lastOp.data
  /\ retryTimer # null
  /\ \E t \in timers : t.id = retryTimer

\* C6 as stated: every submit leaves the event pending under its key and a
\* retry timer armed, whatever the state of the transport.
C6_SubmitAsStated == lastOp.name = "send" => Queued

\* C6 amended: a submit leaves the event pending under its key and a retry
\* timer armed whenever import.meta.hot has send, whether or not the immediate
\* send went through; without hot.send the submit returns at once and the
\* event is dropped.
C6_Submit ==
  /\ (lastOp.name = "send" /\ hot.defined /\ hot.send) => Queued
  /\ (lastOp.name = "send" /\ ~(hot.defined /\ hot.send)) =>
       (pendingPayloads = <<>> /\ timers = {} /\ attempts = <<>>)

\* a submit whose immediate send failed left the event pending and the timer
\* armed
C6_Witness ==
  /\ lastOp.name = "send"
  /\ attempts = <<[payload |-> lastOp.data, ok |-> FALSE]>>
  /\ Queued

\* C7: the pending map holds at most one entry per key, the entry of a key is
\* the latest event submitted with it, and a retry or a connect flush sends
\* that latest event's message only.
C7_OnePerKey ==
  /\ \A i, j \in 1..Len(pendingPayloads) :
       pendingPayloads[i].key = pendingPayloads[j].key => i = j
  /\ \A i \in 1..Len(pendingPayloads) :
       pendingPayloads[i].message = latest[pendingPayloads[i].key]
  /\ lastOp.name \in {"timer", "connect"} =>
       \A i \in 1..Len(attempts) :
         attempts[i].payload.message = latest[attempts[i].payload.key]

\* a retry sent the later of two events with one key, the earlier of which is
\* still in flight
C7_Witness ==
  /\ lastOp.name = "timer"
  /\ Len(attempts) = 1
  /\ \E i \in 1..Len(reports) :
       /\ reports[i].key = attempts[1].payload.key
       /\ reports[i].message # attempts[1].payload.message

\* C8: a key leaves the pending map only in the step that handles an ack with
\* that key, and that step removes that key's entry and no other.
C8_OnlyAckRemoves ==
  [][/\ lastOp'.name \notin {"ack", "send"} => pendingPayloads' = pendingPayloads
     /\ lastOp'.name = "send" =>
          \A i \in 1..Len(pendingPayloads) :
            /\ i <= Len(pendingPayloads')
            /\ pendingPayloads'[i].key = pendingPayloads[i].key
            /\ pendingPayloads[i].key # lastOp'.data.key =>
                 pendingPayloads'[i] = pendingPayloads[i]
     /\ lastOp'.name = "ack" =>
          pendingPayloads' =
            SelectSeq(pendingPayloads, LAMBDA e : e.key # lastOp'.data.key)
    ]_vars

\* an ack was handled and the entry of another key is still pending
C8_Witness ==
  /\ lastOp.name = "ack"
  /\ Len(pendingPayloads) = 1
  /\ latest[lastOp.data.key] # undefined
  /\ pendingPayloads[1].key # lastOp.data.key

\* C9: at most one retry timer is armed, the one retryTimer holds, and its
\* fire serves every pending key.
C9_OneTimer ==
  /\ Cardinality(timers) <= 1
  /\ \A t \in timers : t.id = retryTimer
  /\ retryTimer = null <=> timers = {}
  /\ lastOp.name = "timer" =>
       {attempts[i].payload.key : i \in 1..Len(attempts)}
         = MapKeys(pendingPayloads)

\* two keys are pending under one armed timer after a retry
C9_Witness ==
  /\ lastOp.name = "timer"
  /\ Len(pendingPayloads) = 2
  /\ Cardinality(timers) = 1

\* C10: the delay stays between the floor and the cap, and it decreases only
\* to the floor, in the connect handler or in the ack handler that empties the
\* pending map.
C10_Backoff ==
  /\ [](FloorDelayMs <= retryDelayMs /\ retryDelayMs <= CapDelayMs)
  /\ [][retryDelayMs' < retryDelayMs
        => /\ retryDelayMs' = FloorDelayMs
           /\ \/ lastOp'.name = "connect"
              \/ /\ lastOp'.name = "ack"
                 /\ pendingPayloads # <<>>
                 /\ pendingPayloads' = <<>>]_vars

\* a retry re-armed the timer with the delay at the cap
C10_Witness ==
  /\ lastOp.name = "timer"
  /\ retryDelayMs = CapDelayMs
  /\ \E t \in timers : t.delay = CapDelayMs

\* C11: while an event is pending and no ack for it can arrive (no report and
\* no ack is in flight), another send attempt is scheduled: a retry timer is
\* armed. The connect handler clears the armed timer, flushes once and arms
\* nothing, so a flush whose report or ack is lost leaves the event pending
\* with no attempt to come.
C11_RetryArmedAsStated ==
  (pendingPayloads # <<>> /\ reports = <<>> /\ acks = <<>>) => timers # {}

\* C12: an ack whose key is not in the pending map changes neither the map,
\* nor the backoff delay, nor the retry timer; so of two acks for one key
\* the second changes nothing.
C12_StaleAck ==
  [][(lastOp'.name = "ack" /\ ~MapHas(pendingPayloads, lastOp'.data.key))
      => UNCHANGED <<pendingPayloads, retryDelayMs, retryTimer, timers>>]_vars

\* an ack that removed nothing arrived while another key was pending with a
\* backed-off timer armed
C12_Witness ==
  /\ lastOp.name = "ack"
  /\ lastOp.data.message = undefined
  /\ pendingPayloads # <<>>
  /\ retryDelayMs > FloorDelayMs
  /\ timers # {}

\* C13: an outage-and-recovery run, step by step (outage counts its steps).
\* 1: a send() into an empty map while the websocket is down makes one failed
\* attempt and arms the timer at 200 ms; 2: the timer fires, the attempt fails
\* again, the delay becomes 400 ms and the timer is re-armed with it; 3: a
\* connect notification resets the delay to 200 ms and its flush sends the
\* event; 4: the ack for the key empties the map and leaves no timer armed
\* and the delay at 200 ms.
C13_OutageRecovery ==
  [][/\ (outage' = 1 /\ outage # 1)
        => /\ Len(attempts') = 1 /\ ~attempts'[1].ok
           /\ reports' = reports
           /\ Len(pendingPayloads') = 1
           /\ \E t \in timers' : timers' = {t} /\ t.delay = 200
     /\ (outage' = 2 /\ outage = 1)
        => /\ Len(attempts') = 1 /\ ~attempts'[1].ok
           /\ reports' = reports
           /\ pendingPayloads' = pendingPayloads
           /\ retryDelayMs' = 400
           /\ \E t \in timers' : timers' = {t} /\ t.delay = 400
     /\ (outage' = 3 /\ outage = 2)
        => /\ retryDelayMs' = 200
           /\ Len(attempts') = 1 /\ attempts'[1].ok
           /\ attempts'[1].payload = pendingPayloads[1]
           /\ pendingPayloads' = pendingPayloads
     /\ (outage' = 4 /\ outage = 3)
        => /\ pendingPayloads' = <<>>
           /\ retryTimer' = null
           /\ timers' = {}
           /\ retryDelayMs' = 200]_vars

\* the run was followed to its end: the ack arrived after the connect's flush
C13_Witness ==
  /\ outage = 4
  /\ lastOp.name = "ack"
  /\ pendingPayloads = <<>>

\* C17: a report without a message is dropped: the handler sends nothing (no
\* overlay, no ack) and leaves every connection's slot as it is, so the
\* report after it is handled from the state the one before it left.
C17_MalformedDropped ==
  [][(lastOp'.name = "report" /\ Falsy(lastOp'.data.message))
      => /\ sent' = <<>>
         /\ lastByClient' = lastByClient
         /\ lastSeen' = lastSeen
         /\ acks' = acks]_vars

\* a report with a key and no message arrived on a connection whose slot
\* holds another key, and the slot still holds it
C17_Witness ==
  /\ lastOp.name = "report"
  /\ Falsy(lastOp.data.message)
  /\ lastOp.data.key # undefined
  /\ lastByClient[lastOp.conn] # undefined
  /\ lastByClient[lastOp.conn] # lastOp.data.key
  /\ sent = <<>>

\* C18: a fire of the retry timer attempts one send for each pending entry;
\* after it, if the map is not empty the delay is min(2 * delay, 2000) and
\* the timer is armed again with that delay, otherwise the delay is 200 and
\* no timer is armed. An armed timer always carries the current delay, so
\* fires with no ack between them come after 200, 400, 800, 1600, 2000, ...
C18_RetryFire ==
  /\ [][lastOp'.name = "timer"
        => /\ Len(attempts') = Len(pendingPayloads)
           /\ \A i \in 1..Len(pendingPayloads) :
                attempts'[i].payload = pendingPayloads[i]
           /\ IF pendingPayloads' # <<>>
              THEN /\ retryDelayMs' = Min(2 * retryDelayMs, 2000)
                   /\ \E t \in timers' : /\ timers' = {t}
                                         /\ t.delay = retryDelayMs'
                                         /\ t.id = retryTimer'
              ELSE /\ retryDelayMs' = 200
                   /\ timers' = {}
                   /\ retryTimer' = null]_vars
  /\ [](\A t \in timers : /\ t.delay = retryDelayMs
                          /\ t.delay \in {200, 400, 800, 1600, 2000})

\* the third fire in a row served two pending keys and re-armed at 1600
C18_Witness ==
  /\ lastOp.name = "timer"
  /\ Len(attempts) = 2
  /\ retryDelayMs = 1600
  /\ \E t \in timers : t.delay = 1600

\* C19: the connect handler sets the delay to 200, leaves no timer armed,
\* attempts exactly one send for each pending entry and leaves the pending
\* map as it was.
C19_Connect ==
  [][lastOp'.name = "connect"
      => /\ retryDelayMs' = 200
         /\ retryTimer' = null
         /\ timers' = {}
         /\ Len(attempts') = Len(pendingPayloads)
         /\ \A i \in 1..Len(pendingPayloads) :
              attempts'[i].payload = pendingPayloads[i]
         /\ pendingPayloads' = pendingPayloads]_vars

\* a connect notification found two keys pending and flushed both
C19_Witness ==
  /\ lastOp.name = "connect"
  /\ Len(pendingPayloads) = 2
  /\ Len(attempts) = 2
  /\ \A i \in 1..2 : attempts[i].ok

\* C20: whenever a retry timer is armed the pending map is not empty, and
\* whenever the pending map is empty the delay is 200 and no timer is armed.
C20_TimerNeedsPending ==
  /\ timers # {} => pendingPayloads # <<>>
  /\ pendingPayloads = <<>>
       => retryDelayMs = 200 /\ timers = {} /\ retryTimer = null

\* the ack that removed the last pending entry left the delay at the floor
\* and no timer armed
C20_Witness ==
  /\ lastOp.name = "ack"
  /\ lastOp.data.message # undefined
  /\ pendingPayloads = <<>>
  /\ retryDelayMs = FloorDelayMs
  /\ timers = {}

\* the warn handler call of the last step called send()
Sends(log) == \E i \in 1..Len(log) : log[i].fn = "send"

\* the last step was a call of the warn handler with a msg that has the marker
Matching(w) == w # NoWarning /\ Includes(w.msg, VUE_TRANSITION_WARN)

\* more than 500 ms have passed since the last accepted warning, or w's key
\* differs from that warning's key (or no warning was accepted yet)
Due(w) ==
  \/ accepted = NoAccepted
  \/ now - accepted.at > 500
  \/ DebounceKey(w.msg, w.trace) # accepted.key

\* C14 as stated: a warning with the marker leads to a send exactly when more
\* than 500 ms have passed since the last accepted warning or its key differs
\* from that warning's key.
C14_DebounceAsStated ==
  [][Matching(warning') => (Sends(warnLog') <=> Due(warning'))]_vars

\* C14 amended: the same, unless disableAfterFirstError is set and a warning
\* was accepted before, in which case it leads to no send.
C14_Debounce ==
  [][Matching(warning')
      => (Sends(warnLog')
            <=> /\ ~(disableAfterFirstError /\ accepted # NoAccepted)
                /\ Due(warning'))]_vars

\* with disableAfterFirstError unset, a warning with the key of the last
\* accepted one came less than 500 ms after it and led to no send
C14_Witness ==
  /\ Matching(warning)
  /\ ~disableAfterFirstError
  /\ accepted # NoAccepted
  /\ DebounceKey(warning.msg, warning.trace) = accepted.key
  /\ now > accepted.at
  /\ now - accepted.at < 500
  /\ ~Sends(warnLog)

\* C15: with disableAfterFirstError set, no warning after the first accepted
\* one leads to a send; with it unset, a warning with the marker that comes
\* after an accepted one leads to a send whenever the debounce lets it pass.
C15_OneShot ==
  [][warning' # NoWarning
      => /\ (disableAfterFirstError /\ accepted # NoAccepted)
              => ~Sends(warnLog')
         /\ (/\ ~disableAfterFirstError
             /\ accepted # NoAccepted
             /\ Matching(warning')
             /\ Due(warning'))
              => Sends(warnLog')]_vars

\* with disableAfterFirstError set, a warning with the marker and another
\* key came more than 500 ms after the accepted one and led to no send
C15_Witness ==
  /\ disableAfterFirstError
  /\ accepted # NoAccepted
  /\ Matching(warning)
  /\ DebounceKey(warning.msg, warning.trace) # accepted.key
  /\ now - accepted.at > 500
  /\ ~Sends(warnLog)

\* C16: every call of the installed warn handler calls the handler that was
\* registered before it exactly once, with the arguments of the call and
\* before anything else it does; with no handler registered before, it calls
\* none.
C16_Forwards ==
  [][warning' # NoWarning
      => IF originalWarnHandler # NoHandler
         THEN /\ warnLog' # <<>>
              /\ warnLog'[1].fn = "originalWarnHandler"
              /\ warnLog'[1].arg = warning'
              /\ \A i \in 2..Len(warnLog') :
                   warnLog'[i].fn # "originalWarnHandler"
         ELSE \A i \in 1..Len(warnLog') :
                warnLog'[i].fn # "originalWarnHandler"]_vars

\* after the one accepted warning of a one-shot handler, a warning without
\* the marker was forwarded to the app's own handler
C16_Witness ==
  /\ originalWarnHandler # NoHandler
  /\ disableAfterFirstError
  /\ accepted # NoAccepted
  /\ warning # NoWarning
  /\ ~Includes(warning.msg, VUE_TRANSITION_WARN)
  /\ Len(warnLog) = 1
  /\ warnLog[1].fn = "originalWarnHandler"
  /\ warnLog[1].arg = warning
====
